---- MODULE Spec2Model ----
(***************************************************************************)
(* Ride-leader allocation (ride_leader_allocation_tool.py): one allocation *)
(* run is populate_graph, then assign_ride_leaders (maximum flow, the two  *)
(* demand assignments, minimum cost flow), then extract_allocations.       *)
(*                                                                         *)
(* Identifiers are Python strings; they are modelled as sequences of       *)
(* one-character strings so that the f-string node names and str.replace   *)
(* are computed character by character.                                    *)
(***************************************************************************)
EXTENDS Integers, Sequences, FiniteSets, TLC

VARIABLES
    rides,            \* input: list of ride ids (unique)
    leader_offers,    \* input: dict leader id -> offered ride ids
    pc,               \* position in the run
    nodes,            \* graph.nodes
    demand,           \* the 'demand' attribute of the nodes that carry one
    edges,            \* graph.edges: <<u, v>> -> [capacity, weight]
    stdout,           \* what populate_graph printed: <<offer, leader>> warnings
    returned_warnings,\* the warnings carried by populate_graph's return value
    unfeasible,       \* whether nx.min_cost_flow raised NetworkXUnfeasible
    max_flow_value,   \* assign_ride_leaders' local max_flow_value
    rides_filled,     \* first component returned by assign_ride_leaders
    flow_dict,        \* second component returned by assign_ride_leaders
    allocations       \* value returned by extract_allocations

vars == <<rides, leader_offers, pc, nodes, demand, edges, stdout, returned_warnings,
          unfeasible, max_flow_value, rides_filled, flow_dict, allocations>>

(***************************************************************************)
(* The input domain.  rides is a list of unique ride ids and each leader's *)
(* offers are a collection without repetition (len(offers) is its size).   *)
(* No ride id is a node name that populate_graph makes up itself (SOURCE,  *)
(* SINK, <leader>_in, <leader>_out, <leader>_slot_<i>), so that distinct   *)
(* rides, leaders and slots are distinct nodes.  Leader ids may contain    *)
(* "_in".                                                                  *)
(***************************************************************************)
MaxLeaders == 2
MaxOffers == 2

\* Ride ids.  Ride ids are interchangeable, so the rides list is a prefix of
\* <<x, y, z>>; an offer of a ride outside the list is an invalid offer.
RideOrder == << <<"x">>, <<"y">>, <<"z">> >>
RideIds == {RideOrder[i] : i \in DOMAIN RideOrder}

\* Leader ids: plain ones, and one that is another leader id followed by "_in".
LeaderIds == {<<"a">>, <<"b">>, <<"a", "_", "i", "n">>}

RidesInputs == {SubSeq(RideOrder, 1, n) : n \in 0..Len(RideOrder)}
OfferInputs == {S \in SUBSET RideIds : Cardinality(S) <= MaxOffers}
LeaderSets == {S \in SUBSET LeaderIds : Cardinality(S) <= MaxLeaders}

(***************************************************************************)
(* Strings.                                                                *)
(***************************************************************************)
SOURCE == <<"S", "O", "U", "R", "C", "E">>
SINK == <<"S", "I", "N", "K">>
IN_SUFFIX == <<"_", "i", "n">>
OUT_SUFFIX == <<"_", "o", "u", "t">>
SLOT_INFIX == <<"_", "s", "l", "o", "t", "_">>
Digits == <<"0", "1", "2", "3", "4", "5", "6", "7", "8", "9">>

\* str(i) of a non-negative int, as an f-string formats it
RECURSIVE Str(_)
Str(i) == IF i < 10 THEN <<Digits[i + 1]>>
          ELSE Str(i \div 10) \o <<Digits[(i % 10) + 1]>>

\* s.replace(old, ""): every non-overlapping occurrence, scanning from the left
RECURSIVE StrRemoveAll(_, _)
StrRemoveAll(s, old) ==
    IF Len(s) < Len(old) THEN s
    ELSE IF SubSeq(s, 1, Len(old)) = old
         THEN StrRemoveAll(SubSeq(s, Len(old) + 1, Len(s)), old)
         ELSE <<s[1]>> \o StrRemoveAll(Tail(s), old)

LeaderInNode(leader) == leader \o IN_SUFFIX
LeaderOutNode(leader) == leader \o OUT_SUFFIX
SlotNode(leader, i) == leader \o SLOT_INFIX \o Str(i)

\* extract_allocations' key for a successor node of a ride
LeaderKey(node) == StrRemoveAll(node, IN_SUFFIX)

(***************************************************************************)
(* populate_graph                                                          *)
(***************************************************************************)
Range(s) == {s[i] : i \in DOMAIN s}

\* len(offers)
LeaderOfferCount(offers) == Cardinality(offers)

\* slip: a ride may be filled twice
SourceEdgeCapacity_Two(ride_id) == 2
SourceEdgeCapacity(ride_id) == 1
\* slip: every slot costs the same
SlotWeight_Flat(i) == 0
SlotWeight(i) == i
\* slip: the edge to the sink lets one ride through
LeaderOutCapacity_One(offers) == 1
LeaderOutCapacity(offers) == LeaderOfferCount(offers)

\* slip: the membership test is left out
OfferIsValid_Always(rs, offer) == TRUE

\* `if offer in rides`
OfferIsValid(rs, offer) == offer \in Range(rs)

SourceEdges(rs) == {<<SOURCE, r>> : r \in Range(rs)}
SlotInEdges(lo, l) ==
    {<<LeaderInNode(l), SlotNode(l, i)>> : i \in 0..(LeaderOfferCount(lo[l]) - 1)}
SlotOutEdges(lo, l) ==
    {<<SlotNode(l, i), LeaderOutNode(l)>> : i \in 0..(LeaderOfferCount(lo[l]) - 1)}
SinkEdges(lo) == {<<LeaderOutNode(l), SINK>> : l \in DOMAIN lo}
OfferEdges(rs, lo) ==
    UNION {{<<o, LeaderInNode(l)>> : o \in {x \in lo[l] : OfferIsValid(rs, x)}} : l \in DOMAIN lo}

PopulateNodes(rs, lo) ==
    {SOURCE, SINK} \cup Range(rs)
      \cup {LeaderInNode(l) : l \in DOMAIN lo}
      \cup {LeaderOutNode(l) : l \in DOMAIN lo}
      \cup UNION {{SlotNode(l, i) : i \in 0..(LeaderOfferCount(lo[l]) - 1)} : l \in DOMAIN lo}
      \cup {e[1] : e \in OfferEdges(rs, lo)}    \* add_edge adds a node it does not find

\* add_node(source) and add_node(sink) set no attribute; the ride, leader and slot
\* nodes get demand=0
PopulateDemand(rs, lo) ==
    [n \in Range(rs)
      \cup {LeaderInNode(l) : l \in DOMAIN lo}
      \cup {LeaderOutNode(l) : l \in DOMAIN lo}
      \cup UNION {{SlotNode(l, i) : i \in 0..(LeaderOfferCount(lo[l]) - 1)} : l \in DOMAIN lo}
     |-> 0]

\* graph.add_edge overwrites the attributes of an edge that exists: the last writer wins
PopulateEdges(rs, lo) ==
    LET all == SourceEdges(rs) \cup SinkEdges(lo) \cup OfferEdges(rs, lo)
                 \cup UNION {SlotInEdges(lo, l) \cup SlotOutEdges(lo, l) : l \in DOMAIN lo}
        slotOut(e) == \E l \in DOMAIN lo : e \in SlotOutEdges(lo, l)
        slotIn(e) == \E l \in DOMAIN lo : e \in SlotInEdges(lo, l)
        slotIdx(e) == CHOOSE i \in 0..Cardinality(all) :
                         \E l \in DOMAIN lo : e = <<SlotNode(l, i), LeaderOutNode(l)>>
        sinkOf(e) == CHOOSE l \in DOMAIN lo : e = <<LeaderOutNode(l), SINK>>
    IN [e \in all |->
          IF e \in OfferEdges(rs, lo) THEN [capacity |-> 1, weight |-> 0]
          ELSE IF e \in SinkEdges(lo)
               THEN [capacity |-> LeaderOutCapacity(lo[sinkOf(e)]), weight |-> 0]
          ELSE IF slotOut(e) THEN [capacity |-> 1, weight |-> SlotWeight(slotIdx(e))]
          ELSE IF slotIn(e) THEN [capacity |-> 1, weight |-> 0]
          ELSE [capacity |-> SourceEdgeCapacity(e[2]), weight |-> 0]]

\* the print of the else branch: one warning per offer that is not in rides
PopulateWarnings(rs, lo) ==
    UNION {{<<o, l>> : o \in {x \in lo[l] : ~OfferIsValid(rs, x)}} : l \in DOMAIN lo}

\* `return graph, source, sink`: the return value carries no warning
PopulateReturnedWarnings(rs, lo) == {}

Init ==
    /\ rides \in RidesInputs
    /\ \E ls \in LeaderSets : leader_offers \in [ls -> OfferInputs]
    /\ pc = "start"
    /\ nodes = {}
    /\ demand = <<>>
    /\ edges = <<>>
    /\ stdout = {}
    /\ returned_warnings = {}
    /\ unfeasible = FALSE
    /\ max_flow_value = 0
    /\ rides_filled = 0
    /\ flow_dict = <<>>
    /\ allocations = <<>>

PopulateGraph ==
    /\ pc = "start"
    /\ nodes' = PopulateNodes(rides, leader_offers)
    /\ demand' = PopulateDemand(rides, leader_offers)
    /\ edges' = PopulateEdges(rides, leader_offers)
    /\ stdout' = PopulateWarnings(rides, leader_offers)
    /\ returned_warnings' = PopulateReturnedWarnings(rides, leader_offers)
    /\ pc' = "built"
    /\ UNCHANGED <<rides, leader_offers, unfeasible, max_flow_value, rides_filled,
                   flow_dict, allocations>>

(***************************************************************************)
(* networkx: the two solvers, by their documented contract.  A flow is a   *)
(* function on the edges; the solver's choice among optimal flows is not   *)
(* specified, so every optimal flow is a possible result.                  *)
(***************************************************************************)
RECURSIVE SumF(_, _)
SumF(f, S) == IF S = {} THEN 0
              ELSE LET x == CHOOSE y \in S : TRUE IN f[x] + SumF(f, S \ {x})

OutEdges(E, n) == {e \in DOMAIN E : e[1] = n}
InFlow(f, n) == SumF(f, {e \in DOMAIN f : e[2] = n})
OutFlow(f, n) == SumF(f, {e \in DOMAIN f : e[1] = n})
MaxOf(S) == CHOOSE x \in S : \A y \in S : y <= x

\* Demand of a node: networkx reads a missing 'demand' attribute as 0
Demand(d, n) == IF n \in DOMAIN d THEN d[n] ELSE 0

\* a node order in which every edge goes forward (the network is acyclic)
RECURSIVE TopoOrder(_, _)
TopoOrder(E, remaining) ==
    IF remaining = {} THEN <<>>
    ELSE LET n == CHOOSE m \in remaining :
                     \A e \in DOMAIN E : e[2] = m => e[1] \notin remaining
         IN <<n>> \o TopoOrder(E, remaining \ {n})

\* the ways to send k units out of n within the capacities
Distributions(E, n, k) ==
    LET out == OutEdges(E, n)
        top == IF out = {} THEN 0 ELSE MaxOf({E[e].capacity : e \in out})
    IN {y \in [out -> 0..top] :
            /\ \A e \in out : y[e] <= E[e].capacity
            /\ SumF(y, out) = k}

\* the ways to send anything out of the source within the capacities
SourceDistributions(E, s) ==
    LET out == OutEdges(E, s)
        top == IF out = {} THEN 0 ELSE MaxOf({E[e].capacity : e \in out})
    IN {y \in [out -> 0..top] : \A e \in out : y[e] <= E[e].capacity}

RECURSIVE ExtendFlows(_, _, _, _)
ExtendFlows(E, s, order, fs) ==
    IF order = <<>> THEN fs
    ELSE LET n == Head(order)
         IN ExtendFlows(E, s, Tail(order),
              UNION {{f @@ y : y \in IF n = s THEN SourceDistributions(E, s)
                                      ELSE Distributions(E, n, InFlow(f, n))} : f \in fs})

\* every integral flow from s to t: 0 <= f <= capacity on each edge, and
\* inflow = outflow at each node other than s and t
FeasibleFlows(N, E, s, t) == ExtendFlows(E, s, TopoOrder(E, N \ {t}), {<<>>})

FlowValue(f, t) == InFlow(f, t) - OutFlow(f, t)

\* nx.maximum_flow(graph, source, sink)[0]
MaximumFlowValue(N, E, s, t) == MaxOf({FlowValue(f, t) : f \in FeasibleFlows(N, E, s, t)})

\* nx.cost_of_flow: sum of weight x flow over all edges
RECURSIVE CostOfFlow(_, _, _)
CostOfFlow(E, f, S) ==
    IF S = {} THEN 0
    ELSE LET e == CHOOSE x \in S : TRUE
         IN E[e].weight * f[e] + CostOfFlow(E, f, S \ {e})
TotalCost(E, f) == CostOfFlow(E, f, DOMAIN E)

\* the flows that satisfy every node's demand (nx.min_cost_flow's feasible set;
\* only the source and the sink ever carry a non-zero demand)
DemandFlows(N, E, d, s, t) ==
    {f \in FeasibleFlows(N, E, s, t) :
        \A n \in N : InFlow(f, n) - OutFlow(f, n) = Demand(d, n)}

\* the results nx.min_cost_flow(graph) may return
MinCostFlows(N, E, d, s, t) ==
    LET fs == DemandFlows(N, E, d, s, t)
    IN {f \in fs : \A g \in fs : TotalCost(E, f) <= TotalCost(E, g)}

\* the dict of dicts networkx returns: flowDict[u][v] for every edge, and an
\* empty dict for a node without successors
ToFlowDict(N, f) ==
    [u \in N |-> [v \in {e[2] : e \in {x \in DOMAIN f : x[1] = u}} |-> f[<<u, v>>]]]

(***************************************************************************)
(* assign_ride_leaders                                                     *)
(***************************************************************************)
\* slip: the sign of the sink's demand
SinkDemand_Negated(value) == 0 - value
\* -max_flow_value and max_flow_value
SourceDemand(value) == 0 - value
SinkDemand(value) == value

MaximumFlow ==
    /\ pc = "built"
    /\ max_flow_value' = MaximumFlowValue(nodes, edges, SOURCE, SINK)
    /\ pc' = "max_flow"
    /\ UNCHANGED <<rides, leader_offers, nodes, demand, edges, stdout, returned_warnings,
                   unfeasible, rides_filled, flow_dict, allocations>>

\* graph.nodes[source]['demand'] = -max_flow_value
SetSourceDemand ==
    /\ pc = "max_flow"
    /\ demand' = (SOURCE :> SourceDemand(max_flow_value)) @@ demand
    /\ pc' = "source_demand"
    /\ UNCHANGED <<rides, leader_offers, nodes, edges, stdout, returned_warnings,
                   unfeasible, max_flow_value, rides_filled, flow_dict, allocations>>

\* graph.nodes[sink]['demand'] = max_flow_value
SetSinkDemand ==
    /\ pc = "source_demand"
    /\ demand' = (SINK :> SinkDemand(max_flow_value)) @@ demand
    /\ pc' = "demands_set"
    /\ UNCHANGED <<rides, leader_offers, nodes, edges, stdout, returned_warnings,
                   unfeasible, max_flow_value, rides_filled, flow_dict, allocations>>

\* `return 0, {}`
UnfeasibleReturn == <<0, <<>> >>

\* flow_dict = nx.min_cost_flow(graph); return max_flow_value, flow_dict
\* except nx.NetworkXUnfeasible: return 0, {}
MinCostFlow ==
    /\ pc = "demands_set"
    /\ LET fs == MinCostFlows(nodes, edges, demand, SOURCE, SINK)
       IN IF fs = {}
          THEN /\ rides_filled' = UnfeasibleReturn[1]
               /\ flow_dict' = UnfeasibleReturn[2]
               /\ unfeasible' = TRUE
               /\ pc' = "assigned"
          ELSE /\ \E f \in fs : flow_dict' = ToFlowDict(nodes, f)
               /\ rides_filled' = max_flow_value
               /\ unfeasible' = FALSE
               /\ pc' = "assigned"
    /\ UNCHANGED <<rides, leader_offers, nodes, demand, edges, stdout, returned_warnings,
                   max_flow_value, allocations>>

(***************************************************************************)
(* extract_allocations                                                     *)
(***************************************************************************)
\* slip: only the leaders that offer something get a key
InitialAllocations_Offering(lo) == [leader \in {l \in DOMAIN lo : lo[l] # {}} |-> <<>>]

\* allocations = {leader: [] for leader in leader_offers.keys()}
InitialAllocations(lo) == [leader \in DOMAIN lo |-> <<>>]

\* slip: an edge without flow counts as well
FlowIsPositive_OrZero(flow) == flow >= 0

\* `if flow > 0`
FlowIsPositive(flow) == flow > 0

\* the inner loop over flow_dict[ride].items(); a key that is not in allocations
\* raises KeyError
RECURSIVE AppendRide(_, _, _, _)
AppendRide(alloc, ride_flows, ride, todo) ==
    IF todo = {} THEN [raised |-> FALSE, value |-> alloc]
    ELSE LET node == CHOOSE n \in todo : TRUE
             key == LeaderKey(node)
         IN IF FlowIsPositive(ride_flows[node])
            THEN IF key \notin DOMAIN alloc
                 THEN [raised |-> TRUE, value |-> alloc]
                 ELSE AppendRide([alloc EXCEPT ![key] = Append(@, ride)],
                                 ride_flows, ride, todo \ {node})
            ELSE AppendRide(alloc, ride_flows, ride, todo \ {node})

\* the outer loop `for ride in rides`
RECURSIVE ExtractLoop(_, _, _, _)
ExtractLoop(alloc, fd, rs, i) ==
    IF i > Len(rs) THEN [raised |-> FALSE, value |-> alloc]
    ELSE IF rs[i] \notin DOMAIN fd THEN ExtractLoop(alloc, fd, rs, i + 1)
    ELSE LET r == AppendRide(alloc, fd[rs[i]], rs[i], DOMAIN fd[rs[i]])
         IN IF r.raised THEN r ELSE ExtractLoop(r.value, fd, rs, i + 1)

ExtractResult(fd, rs, lo) == ExtractLoop(InitialAllocations(lo), fd, rs, 1)

ExtractAllocations ==
    /\ pc = "assigned"
    /\ LET r == ExtractResult(flow_dict, rides, leader_offers)
       IN IF r.raised
          THEN pc' = "KeyError" /\ UNCHANGED allocations
          ELSE pc' = "done" /\ allocations' = r.value
    /\ UNCHANGED <<rides, leader_offers, nodes, demand, edges, stdout, returned_warnings,
                   unfeasible, max_flow_value, rides_filled, flow_dict>>

\* nx.min_cost_flow raises NetworkXUnfeasible: the outcome the except clause handles.
\* The solver is outside the repository; here its failure is an outcome of the call.
MinCostFlowUnfeasible ==
    /\ pc = "demands_set"
    /\ rides_filled' = UnfeasibleReturn[1]
    /\ flow_dict' = UnfeasibleReturn[2]
    /\ unfeasible' = TRUE
    /\ pc' = "assigned"
    /\ UNCHANGED <<rides, leader_offers, nodes, demand, edges, stdout, returned_warnings,
                   max_flow_value, allocations>>

Next ==
    \/ PopulateGraph
    \/ MaximumFlow
    \/ SetSourceDemand
    \/ SetSinkDemand
    \/ MinCostFlow
    \/ ExtractAllocations

Spec == Init /\ [][Next]_vars

\* the run when the solver may fail
NextUnfeasible == Next \/ MinCostFlowUnfeasible
SpecUnfeasible == Init /\ [][NextUnfeasible]_vars

(***************************************************************************)
(* Definitions the properties are stated with.                             *)
(***************************************************************************)
Returned == pc \in {"assigned", "done", "KeyError"}

\* the flow on the edges, read back from the dict of dicts
FlatFlow == [e \in DOMAIN edges |-> flow_dict[e[1]][e[2]]]

\* a valid assignment: a ride goes to at most one leader, only to a leader that
\* offers it, and a leader gets at most len(offers) rides (None: the ride is unfilled)
None == <<"N", "o", "n", "e">>
ValidAssignments(rs, lo) ==
    {m \in [Range(rs) -> DOMAIN lo \cup {None}] :
        /\ \A r \in Range(rs) : m[r] # None => r \in lo[m[r]]
        /\ \A l \in DOMAIN lo :
              Cardinality({r \in Range(rs) : m[r] = l}) <= Cardinality(lo[l])}
FilledBy(m) == Cardinality({r \in DOMAIN m : m[r] # None})
MaxFill(rs, lo) == MaxOf({FilledBy(m) : m \in ValidAssignments(rs, lo)})

\* number of times a ride occurs in a list
Occurrences(list, ride) == Cardinality({i \in DOMAIN list : list[i] = ride})
RECURSIVE TotalOccurrences(_, _, _)
TotalOccurrences(alloc, keys, ride) ==
    IF keys = {} THEN 0
    ELSE LET k == CHOOSE x \in keys : TRUE
         IN Occurrences(alloc[k], ride) + TotalOccurrences(alloc, keys \ {k}, ride)
RECURSIVE TotalLength(_, _)
TotalLength(alloc, keys) ==
    IF keys = {} THEN 0
    ELSE LET k == CHOOSE x \in keys : TRUE
         IN Len(alloc[k]) + TotalLength(alloc, keys \ {k})

\* the indices of the slot edges that carry flow, summed
UsedSlotIndices ==
    UNION {{<<l, i>> : i \in {j \in 0..(Cardinality(leader_offers[l]) - 1) :
                               flow_dict[SlotNode(l, j)][LeaderOutNode(l)] > 0}}
           : l \in DOMAIN leader_offers}
RECURSIVE SumIndices(_)
SumIndices(S) == IF S = {} THEN 0
                 ELSE LET x == CHOOSE y \in S : TRUE IN x[2] + SumIndices(S \ {x})

\* the pairings whose ride id is not in rides
InvalidPairings ==
    UNION {{<<o, l>> : o \in {x \in leader_offers[l] : x \notin Range(rides)}}
           : l \in DOMAIN leader_offers}
\* the input without them
CleanOffers == [l \in DOMAIN leader_offers |-> leader_offers[l] \cap Range(rides)]

RECURSIVE SumDemand(_, _)
SumDemand(d, N) == IF N = {} THEN 0
                   ELSE LET n == CHOOSE x \in N : TRUE
                        IN Demand(d, n) + SumDemand(d, N \ {n})

(***************************************************************************)
(* C1: the filled_count that assign_ride_leaders returns is the largest    *)
(* number of rides a valid assignment can fill.                            *)
(***************************************************************************)
C1_FilledCountIsMaximum ==
    Returned => rides_filled = MaxFill(rides, leader_offers)

\* two leaders compete, rides are filled, and one ride cannot be
C1_Witness ==
    /\ pc = "assigned"
    /\ rides_filled = 2
    /\ Len(rides) = 3
    /\ \E l \in DOMAIN leader_offers : Cardinality(leader_offers[l] \cap Range(rides)) = 2

C3_OnlyOfferedRides ==
    pc = "done" =>
        \A l \in DOMAIN allocations : Range(allocations[l]) \subseteq leader_offers[l]

(***************************************************************************)
(* C4: no ride appears in the allocation more than once, so no ride is in  *)
(* the lists of two leaders.                                               *)
(***************************************************************************)
C4_RideAssignedAtMostOnce ==
    pc = "done" =>
        \A r \in Range(rides) : TotalOccurrences(allocations, DOMAIN allocations, r) <= 1

\* a ride that two leaders offer is allocated
C4_Witness ==
    /\ pc = "done"
    /\ \E r \in Range(rides) :
          /\ Cardinality({l \in DOMAIN leader_offers : r \in leader_offers[l]}) = 2
          /\ TotalOccurrences(allocations, DOMAIN allocations, r) = 1

(***************************************************************************)
(* C5: the lengths of the allocation's lists add up to filled_count.       *)
(***************************************************************************)
C5_AllocationCountIsFilledCount ==
    pc = "done" => TotalLength(allocations, DOMAIN allocations) = rides_filled

\* rides are filled while an offered ride carries no flow to one of its leaders
C5_Witness ==
    /\ pc = "done"
    /\ rides_filled = 2
    /\ \E e \in DOMAIN edges : e[1] \in Range(rides) /\ flow_dict[e[1]][e[2]] = 0

(***************************************************************************)
(* C6: when the min-cost-flow phase cannot realize the demand, the run     *)
(* aborts: it does not go on with a result of zero filled rides.           *)
(***************************************************************************)
C6_UnfeasibleAborts ==
    unfeasible => ~(pc \in {"assigned", "done"} /\ rides_filled = 0)

(***************************************************************************)
(* C7 as claimed: an offer of a ride that is not in rides adds no edge,    *)
(* does not stop the build, and its warning is returned to the caller.     *)
(***************************************************************************)
C7_WarningsReturned ==
    pc # "start" =>
        /\ \A w \in InvalidPairings : <<w[1], LeaderInNode(w[2])>> \notin DOMAIN edges
        /\ InvalidPairings \subseteq returned_warnings

(***************************************************************************)
(* C7 as amended: such an offer adds no edge and does not stop the build;  *)
(* its warning is printed and not returned; filled_count and the total     *)
(* cost are those of the input without the pairing.                        *)
(***************************************************************************)
C7_WarningsPrinted ==
    /\ pc # "start" =>
          /\ \A w \in InvalidPairings : <<w[1], LeaderInNode(w[2])>> \notin DOMAIN edges
          /\ stdout = InvalidPairings
          /\ returned_warnings = {}
          /\ OfferEdges(rides, CleanOffers) \subseteq DOMAIN edges
    /\ (pc = "assigned" /\ InvalidPairings # {}) =>
          LET N == PopulateNodes(rides, CleanOffers)
              E == PopulateEdges(rides, CleanOffers)
              F == MaximumFlowValue(N, E, SOURCE, SINK)
              d == (SOURCE :> (0 - F)) @@ (SINK :> F)
          IN /\ rides_filled = F
             /\ \A g \in MinCostFlows(N, E, d, SOURCE, SINK) :
                   TotalCost(E, g) = TotalCost(edges, FlatFlow)

\* a leader offers a ride that is not in rides and a ride that is, and gets it
C7_Witness ==
    /\ pc = "done"
    /\ \E l \in DOMAIN leader_offers :
          /\ \E o \in leader_offers[l] : <<o, l>> \in InvalidPairings
          /\ Len(allocations[l]) = 1

C9_LeaderNameRoundTrip ==
    /\ pc # "KeyError"
    /\ pc = "done" =>
          /\ \A l \in DOMAIN leader_offers : LeaderKey(LeaderInNode(l)) = l
          /\ \A l \in DOMAIN leader_offers : \A r \in Range(rides) :
                (<<r, LeaderInNode(l)>> \in DOMAIN edges /\ flow_dict[r][LeaderInNode(l)] > 0)
                    => /\ Occurrences(allocations[l], r) = 1
                       /\ \A k \in DOMAIN allocations \ {l} : Occurrences(allocations[k], r) = 0

(***************************************************************************)
(* C10 as claimed: in every state of the run the node demands add up to 0, *)
(* and only the source (negative) and the sink (positive, same magnitude)  *)
(* carry a demand.                                                         *)
(***************************************************************************)
C10_DemandsAlwaysBalanced ==
    /\ SumDemand(demand, nodes) = 0
    /\ \A n \in nodes \ {SOURCE, SINK} : Demand(demand, n) = 0
    /\ Demand(demand, SOURCE) <= 0
    /\ Demand(demand, SINK) = 0 - Demand(demand, SOURCE)

(***************************************************************************)
(* C10 as amended: the demands add up to 0 after populate_graph, after the *)
(* second demand assignment and after the min-cost-flow phase; between     *)
(* the two assignments only the source carries a demand, -max_flow_value.  *)
(***************************************************************************)
C10_DemandsBalancedOutsideAssignment ==
    /\ \A n \in nodes \ {SOURCE, SINK} : Demand(demand, n) = 0
    /\ pc \in {"start", "built", "max_flow"} =>
          Demand(demand, SOURCE) = 0 /\ Demand(demand, SINK) = 0
    /\ pc = "source_demand" =>
          /\ Demand(demand, SOURCE) = 0 - max_flow_value
          /\ Demand(demand, SINK) = 0
          /\ SumDemand(demand, nodes) = 0 - max_flow_value
    /\ pc \in {"demands_set", "assigned", "done", "KeyError"} =>
          /\ Demand(demand, SOURCE) = 0 - max_flow_value
          /\ Demand(demand, SINK) = max_flow_value
          /\ SumDemand(demand, nodes) = 0

\* both demands are set and are not zero
C10_Witness ==
    /\ pc = "demands_set"
    /\ max_flow_value = 2
    /\ Demand(demand, SINK) = 2

====
